---- MODULE Spec2Model ----
(***************************************************************************)
(* Verification model of yelp-bot: the SerialQueue (src/lib/serialQueue),   *)
(* the YelpBizClient session (src/yelp/biz/yelpBizClient.ts) and the HTTP   *)
(* control surface that drives both (src/server).                           *)
(***************************************************************************)
EXTENDS Integers, Sequences, FiniteSets, TLC

\* Number of tasks submitted to the queue in the queue-only specification.
MaxTasks == 3

\* Number of HTTP requests the control surface receives.
MaxReqs == 2

\* Number of browser sessions that can be launched in one run.
MaxLaunches == 2

\* Number of captcha iframes a page shows at most.
MaxFrames == 2

\* Number of unsuccessful polls of a resolution predicate that fit in the
\* challengeTimeout window.
TimeoutPolls == 2

VARIABLES
  promises,    \* the promises created so far, indexed by identity
  tail,        \* SerialQueue.#tail: identity of the promise at the tail
  microtasks,  \* the engine's pending promise-reaction jobs, FIFO
  tasks,       \* the functions passed to enqueue, in submission order
  startOrder,  \* the order in which the functions were invoked
  context,     \* YelpBizClient.#context: 0 (undefined) or a session identity
  page,        \* YelpBizClient.#page: 0 (undefined) or the session it belongs to
  sessions,    \* the browser sessions launched so far, with their close counts
  thr,         \* per caller: position in the client operation it runs, and locals
  reqs,        \* the HTTP requests received: route, handler position, response
  probe        \* a detection function applied to one observation: input and result

qvars == <<promises, tail, microtasks, tasks, startOrder>>

cvars == <<context, page, sessions, thr>>

vars == <<promises, tail, microtasks, tasks, startOrder, context, page, sessions, thr, reqs, probe>>

(***************************************************************************)
(* Promise values and reaction handlers.                                    *)
(***************************************************************************)
Undefined == [kind |-> "undefined", of |-> 0]
TaskValue(i) == [kind |-> "value", of |-> i]
TaskError(i) == [kind |-> "error", of |-> i]

NoHandler == [type |-> "none", id |-> 0]
ToUndefined == [type |-> "undef", id |-> 0]
CallFn(i) == [type |-> "fn", id |-> i]

PendingPromise == [state |-> "pending", value |-> Undefined, reactions |-> <<>>]
ResolvedPromise == [state |-> "fulfilled", value |-> Undefined, reactions |-> <<>>]

\* The job a reaction turns into once its promise has settled with (st, val).
JobOf(r, st, val) ==
  [h |-> IF st = "fulfilled" THEN r.onF ELSE r.onR,
   st |-> st, val |-> val, target |-> r.target]

\* Settle promise id with (st, val): a promise settles once, and every
\* registered reaction becomes a job, in registration order.
SettleP(ps, mq, id, st, val) ==
  IF id = 0 \/ ps[id].state # "pending"
  THEN [promises |-> ps, microtasks |-> mq]
  ELSE [promises |-> [ps EXCEPT ![id] = [state |-> st, value |-> val, reactions |-> <<>>]],
        microtasks |-> mq \o [k \in 1..Len(ps[id].reactions) |-> JobOf(ps[id].reactions[k], st, val)]]

\* promise.then(onF, onR): a new promise; the reaction waits for a pending
\* promise and is queued at once for a settled one.
ThenP(ps, mq, id, onF, onR) ==
  LET n == Len(ps) + 1
      r == [onF |-> onF, onR |-> onR, target |-> n]
  IN IF ps[id].state = "pending"
     THEN [promises |-> Append([ps EXCEPT ![id].reactions = Append(@, r)], PendingPromise),
           microtasks |-> mq, id |-> n]
     ELSE [promises |-> Append(ps, PendingPromise),
           microtasks |-> Append(mq, JobOf(r, ps[id].state, ps[id].value)), id |-> n]

\* Mutant: the new task is not chained behind the tail (tail is left alone).
EnqueueOp_Unchained(ps, mq, tl, h) ==
  LET r == ThenP(ps, mq, tl, h, h)
      t == ThenP(r.promises, r.microtasks, r.id, ToUndefined, ToUndefined)
  IN [promises |-> t.promises, microtasks |-> t.microtasks, tail |-> tl, run |-> r.id]

\* Mutant: no rejection handlers: run = tail.then(fn); tail = run.
EnqueueOp_NoCatch(ps, mq, tl, h) ==
  LET r == ThenP(ps, mq, tl, h, NoHandler)
  IN [promises |-> r.promises, microtasks |-> r.microtasks, tail |-> r.id, run |-> r.id]

\* SerialQueue.enqueue(fn): run = tail.then(fn, fn);
\* tail = run.then(() => undefined, () => undefined); return run.
EnqueueOp(ps, mq, tl, h) ==
  LET r == ThenP(ps, mq, tl, h, h)
      t == ThenP(r.promises, r.microtasks, r.id, ToUndefined, ToUndefined)
  IN [promises |-> t.promises, microtasks |-> t.microtasks, tail |-> t.id, run |-> r.id]

\* Mutant: the handler closes over a shared slot and calls the function
\* submitted last instead of its own.
BoundTask_Latest(j) == Len(tasks)

\* The function a "fn" reaction job calls: the fn captured by that enqueue call.
BoundTask(j) == j.h.id

\* A caller submits the next task (at any time: idle, pending or running).
Enqueue ==
  /\ Len(tasks) < MaxTasks
  /\ LET i == Len(tasks) + 1
         q == EnqueueOp(promises, microtasks, tail, CallFn(i))
     IN /\ promises' = q.promises
        /\ microtasks' = q.microtasks
        /\ tail' = q.tail
        /\ tasks' = Append(tasks, [st |-> "queued", calls |-> 0, run |-> q.run, fnp |-> 0, req |-> 0,
                                 parent |-> 0, waits |-> 0])
  /\ UNCHANGED <<startOrder, cvars, reqs, probe>>

\* A running task is suspended in `await queue.enqueue(...)` while the handle
\* it awaits is pending.
AwaitsHandle(i) ==
  tasks[i].waits # 0 /\ promises[tasks[tasks[i].waits].run].state = "pending"

\* A running task calls enqueue on the queue it runs in, and either awaits
\* the returned handle or lets it go.
EnqueueNested ==
  /\ Len(tasks) < MaxTasks
  /\ \E p \in 1..Len(tasks) :
       /\ tasks[p].st = "running" /\ tasks[p].req = 0
       /\ ~AwaitsHandle(p)
       /\ LET i == Len(tasks) + 1
              q == EnqueueOp(promises, microtasks, tail, CallFn(i))
          IN /\ promises' = q.promises
             /\ microtasks' = q.microtasks
             /\ tail' = q.tail
             /\ \E awaited \in BOOLEAN :
                  tasks' = Append([tasks EXCEPT ![p].waits = IF awaited THEN i ELSE @],
                                  [st |-> "queued", calls |-> 0, run |-> q.run, fnp |-> 0, req |-> 0,
                                   parent |-> p, waits |-> 0])
  /\ UNCHANGED <<startOrder, cvars, reqs, probe>>

\* The engine runs the reaction job that calls a submitted function.  The
\* function either returns its promise (still pending) or throws at once.
StartTask ==
  /\ microtasks # <<>>
  /\ Head(microtasks).h.type = "fn"
  /\ LET j == Head(microtasks)
         i == BoundTask(j)
     IN /\ tasks[i].req = 0
        /\ startOrder' = Append(startOrder, i)
        /\ \E throws \in BOOLEAN :
             IF throws
             THEN LET s == SettleP(promises, Tail(microtasks), j.target, "rejected", TaskError(i))
                  IN /\ promises' = s.promises
                     /\ microtasks' = s.microtasks
                     /\ tasks' = [tasks EXCEPT ![i].st = "rejected", ![i].calls = @ + 1]
             ELSE LET f == Len(promises) + 1
                      fwd == [onF |-> NoHandler, onR |-> NoHandler, target |-> j.target]
                  IN /\ promises' = Append(promises, [PendingPromise EXCEPT !.reactions = <<fwd>>])
                     /\ microtasks' = Tail(microtasks)
                     /\ tasks' = [tasks EXCEPT ![i].st = "running", ![i].calls = @ + 1, ![i].fnp = f]
  /\ UNCHANGED <<tail, cvars, reqs, probe>>

\* A running task's promise settles: with its value or with its error.
TaskSettle(i) ==
  /\ i \in 1..Len(tasks)
  /\ tasks[i].req = 0
  /\ tasks[i].st = "running"
  /\ ~AwaitsHandle(i)
  /\ \E ok \in BOOLEAN :
       LET s == SettleP(promises, microtasks, tasks[i].fnp,
                        IF ok THEN "fulfilled" ELSE "rejected",
                        IF ok THEN TaskValue(i) ELSE TaskError(i))
       IN /\ promises' = s.promises
          /\ microtasks' = s.microtasks
          /\ tasks' = [tasks EXCEPT ![i].st = IF ok THEN "fulfilled" ELSE "rejected"]
  /\ UNCHANGED <<tail, startOrder, cvars, reqs, probe>>

\* The engine runs a reaction job that has no function to call: a missing
\* handler passes the settlement through, () => undefined fulfils the target.
RunReaction ==
  /\ microtasks # <<>>
  /\ Head(microtasks).h.type \in {"none", "undef"}
  /\ LET j == Head(microtasks)
         s == IF j.h.type = "undef"
              THEN SettleP(promises, Tail(microtasks), j.target, "fulfilled", Undefined)
              ELSE SettleP(promises, Tail(microtasks), j.target, j.st, j.val)
     IN /\ promises' = s.promises
        /\ microtasks' = s.microtasks
  /\ UNCHANGED <<tail, tasks, startOrder, cvars, reqs, probe>>

QNext ==
  \/ Enqueue
  \/ StartTask
  \/ \E i \in 1..MaxTasks : TaskSettle(i)
  \/ RunReaction

\* The queue used by tasks that themselves submit tasks to it.
NNext == QNext \/ EnqueueNested

(***************************************************************************)
(* YelpBizClient: the session, its operations and the page it observes.     *)
(* Each caller runs one operation at a time; thr[t].pc is the await it is   *)
(* suspended at, and a step runs the code from that await to the next one.  *)
(***************************************************************************)
Threads == 0..MaxReqs

NoDir == <<"none", "">>
NoOutcome == [status |-> "none", err |-> "none", dir |-> NoDir]
OkOutcome == [status |-> "ok", err |-> "none", dir |-> NoDir]
ErrOutcome(err, dir) == [status |-> "err", err |-> err, dir |-> dir]

IdleThread ==
  [pc |-> "idle", stack |-> <<>>, op |-> "none", creds |-> FALSE, url |-> "none",
   label |-> "none", dir |-> NoDir, elapsed |-> 0, idx |-> 0, ctx |-> 0,
   traced |-> TRUE, log |-> <<>>, value |-> "undefined", outcome |-> NoOutcome]

Event(e, a) == [e |-> e, a |-> a]
HasEvent(log, e) == \E k \in 1..Len(log) : log[k].e = e

At(r, pc) == [r EXCEPT !.pc = pc]
\* The log is the history of what a call did to the browser; it is kept for
\* the calls of the direct caller, not for the tasks of the server.
Logged(r, ev) == IF r.traced THEN [r EXCEPT !.log = Append(@, ev)] ELSE r
Pushed(r, ret) == [r EXCEPT !.stack = <<ret>> \o @]

\* An async function returns: its caller resumes at the await it waits in,
\* or the operation is done.
Return(r) ==
  IF r.stack = <<>>
  THEN [r EXCEPT !.pc = "done", !.outcome = OkOutcome]
  ELSE [r EXCEPT !.pc = Head(r.stack), !.stack = Tail(@)]

\* throw new Error(...): no caller inside the client catches, the operation
\* rejects with the error (and the snapshot location its message carries).
Throw(r, err, dir) ==
  [r EXCEPT !.pc = "done", !.stack = <<>>, !.outcome = ErrOutcome(err, dir)]

\* A query guarded by .catch(() => false): a failed query counts as not visible.
Vis == {"visible", "hidden", "failed"}
\* Mutant: a failed query counts as visible.
IsVisible_FailedCounts(v) == v # "hidden"

IsVisible(v) == v = "visible"

\* Mutant: the login form always counts as visible.
isEmailPasswordLoginVisible_Always(v) == TRUE

\* #isEmailPasswordLoginVisible: isVisible() of the first email input; a
\* failing query is answered false.
isEmailPasswordLoginVisible(v) == IsVisible(v)

\* ---- start / stop / page ----

\* Mutant: start() launches without looking at #context.
StartEnter_NoGuard(r) == At(r, "start.mkdir")

\* start(), up to its first await: if (this.#context) return; await fs.mkdir(...)
StartEnter(r) ==
  IF context # 0 THEN Return(r) ELSE At(r, "start.mkdir")

\* stop(), up to its await: await this.#context?.close()
StopEnter(r) ==
  IF context # 0
  THEN At([r EXCEPT !.ctx = context], "stop.close")
  ELSE At([r EXCEPT !.ctx = 0], "stop.close")

\* Mutant: page() hands out #page without the check.
PageThrows_Never == FALSE

\* page(): if (!this.#page) throw new Error("YelpBizClient not started...")
PageThrows == page = 0

\* goto(url), up to its first await: const page = this.page(); await page.goto(url)
GotoEnter(r, url) ==
  IF PageThrows
  THEN Throw(r, "NotStarted", NoDir)
  ELSE At(Logged([r EXCEPT !.url = url], Event("nav", <<url, "">>)), "goto.nav")

Step(t, r) == thr' = [thr EXCEPT ![t] = r]

\* await fs.mkdir(userDataDir) returned or failed.
StartMkdir(t) ==
  /\ thr[t].pc = "start.mkdir"
  /\ \E ok \in BOOLEAN :
       Step(t, IF ok THEN At(thr[t], "start.launch") ELSE Throw(thr[t], "MkdirFailed", NoDir))
  /\ UNCHANGED <<qvars, context, page, sessions, reqs, probe>>

\* await chromium.launchPersistentContext(...) failed: start() rejects.
StartLaunchFails(t) ==
  /\ thr[t].pc = "start.launch"
  /\ Step(t, Throw(thr[t], "LaunchFailed", NoDir))
  /\ UNCHANGED <<qvars, context, page, sessions, reqs, probe>>

\* The launch returned: #context is set, and #page too when the session
\* already has a page; otherwise newPage() is awaited.
StartLaunched(t) ==
  /\ thr[t].pc = "start.launch"
  /\ Len(sessions) < MaxLaunches
  /\ LET c == Len(sessions) + 1
         r == Logged([thr[t] EXCEPT !.ctx = c], Event("launch", NoDir))
     IN /\ sessions' = Append(sessions, [closes |-> 0])
        /\ context' = c
        /\ \E hasPage \in BOOLEAN :
             IF hasPage
             THEN page' = c /\ Step(t, Return(r))
             ELSE page' = page /\ Step(t, At(r, "start.newPage"))
  /\ UNCHANGED <<qvars, reqs, probe>>

\* await this.#context.newPage() returned or failed.
StartNewPage(t) ==
  /\ thr[t].pc = "start.newPage"
  /\ \E ok \in BOOLEAN :
       IF ok
       THEN page' = thr[t].ctx /\ Step(t, Return(thr[t]))
       ELSE page' = page /\ Step(t, Throw(thr[t], "NewPageFailed", NoDir))
  /\ UNCHANGED <<qvars, context, sessions, reqs, probe>>

\* Mutant: stop() closes the session but keeps the handle.
ClearedHandle_Kept(h) == h

\* stop() after the close returned: this.#context = undefined; this.#page = undefined
ClearedHandle(h) == 0

\* await this.#context?.close() returned (or there was nothing to close):
\* both handles are cleared.
StopClosed(t) ==
  /\ thr[t].pc = "stop.close"
  /\ LET c == thr[t].ctx
         r == IF c = 0 THEN thr[t] ELSE Logged(thr[t], Event("close", NoDir))
     IN /\ sessions' = IF c = 0 THEN sessions ELSE [sessions EXCEPT ![c].closes = @ + 1]
        /\ context' = ClearedHandle(context)
        /\ page' = ClearedHandle(page)
        /\ Step(t, Return(r))
  /\ UNCHANGED <<qvars, reqs, probe>>

\* close() rejected: stop() rejects before clearing the handles.
StopCloseFails(t) ==
  /\ thr[t].pc = "stop.close"
  /\ thr[t].ctx # 0
  /\ Step(t, Throw(thr[t], "CloseFailed", NoDir))
  /\ UNCHANGED <<qvars, context, page, sessions, reqs, probe>>

\* ---- what the page shows: detection and resolution predicates ----

\* Smallest width and height of a captcha iframe that counts as a challenge.
MinCaptchaSize == 100

Dims == {0, 80, 100, 150}

RECURSIVE SeqsUpTo(_, _)
SeqsUpTo(S, n) ==
  IF n = 0 THEN {<<>>}
  ELSE LET shorter == SeqsUpTo(S, n - 1)
       IN shorter \cup {Append(q, x) : q \in {z \in shorter : Len(z) = n - 1}, x \in S}

\* What captchaIframes.nth(idx).boundingBox() gives: a box, null, or a failure.
BoxResults ==
  {[kind |-> "failed", w |-> 0, h |-> 0], [kind |-> "null", w |-> 0, h |-> 0]}
    \cup {[kind |-> "box", w |-> w, h |-> h] : w \in Dims, h \in Dims}

\* What the detection queries give: count() (or its failure) and a box per iframe.
CaptchaObs ==
  {[countOk |-> TRUE, boxes |-> b] : b \in SeqsUpTo(BoxResults, MaxFrames)}
    \cup {[countOk |-> FALSE, boxes |-> <<>>]}

\* Mutant: one large dimension is enough.
IsLargeBox_Either(box) == box.w >= MinCaptchaSize \/ box.h >= MinCaptchaSize

\* box.width >= 100 && box.height >= 100
IsLargeBox(box) == box.w >= MinCaptchaSize /\ box.h >= MinCaptchaSize

\* The loop over the iframes: .catch(() => null), continue on null, break on
\* the first large box.
RECURSIVE ScanFrames(_, _)
ScanFrames(boxes, idx) ==
  IF idx > Len(boxes) THEN FALSE
  ELSE IF boxes[idx].kind # "box" THEN ScanFrames(boxes, idx + 1)
  ELSE IF IsLargeBox(boxes[idx]) THEN TRUE
  ELSE ScanFrames(boxes, idx + 1)

\* captchaChallengeVisible: count().catch(() => 0), then the loop.
CaptchaChallengeVisible(q) ==
  LET iframeCount == IF q.countOk THEN Len(q.boxes) ELSE 0
  IN ScanFrames(SubSeq(q.boxes, 1, iframeCount), 1)

\* An iframe as the page's own script sees it: whether the case-sensitive
\* selectors of the resolution predicate match it, its style and its rect.
DomFrames ==
  [sel : {"exact", "caseOnly"}, display : {"block", "none"},
   visibility : {"visible", "hidden"}, w : Dims, h : Dims]

\* The predicate polled by waitForFunction for a captcha: every selected
\* frame is hidden, empty or small.
CaptchaResolved(frames) ==
  \A k \in 1..Len(frames) :
    frames[k].sel = "exact" =>
      \/ frames[k].display = "none" \/ frames[k].visibility = "hidden"
      \/ frames[k].w = 0 \/ frames[k].h = 0
      \/ frames[k].w < MinCaptchaSize \/ frames[k].h < MinCaptchaSize

\* hasOtp: the one-time-code input is visible, or else the 2FA text is.
HasOtp(otp, text) == IsVisible(otp) \/ IsVisible(text)

Phrases ==
  {"none", "two-factor", "two factor", "2fa", "verification code",
   "authentication code", "enter the code"}

\* The page as the two-factor resolution predicate sees it.
DomTwoFactor == [otp : {"absent", "hidden", "visible"}, text : Phrases]

\* The predicate polled by waitForFunction for two-factor: no code input in
\* the document and none of the four phrases in the body text.
TwoFactorResolved(d) ==
  /\ d.otp = "absent"
  /\ d.text \notin {"two-factor", "two factor", "verification code", "authentication code"}

Hosts == {"biz.yelp.com", "business.yelp.com", "www.yelp.com"}
Paths == {"/", "/login", "/access-denied", "/Blocked"}
Urls == [host : Hosts, path : Paths]

\* Case folding of the paths above (the /i flag of the block pattern).
LowerPath(path) == IF path = "/Blocked" THEN "/blocked" ELSE path

\* /access-denied|blocked|forbidden|challenge/i.test(url)
LikelyBlockUrl(u) ==
  LowerPath(u.path) \in {"/access-denied", "/blocked", "/forbidden", "/challenge"}

Titles ==
  {"Yelp for Business", "ERROR: The request could not be satisfied",
   "  error: the request could not be satisfied ", "ERROR: The request could not be satisfied (403)"}

\* What page.title().catch(() => "") gives.
TitleResults == Titles \cup {""}

\* title.trim().toLowerCase() on the titles above.
TrimLower(title) ==
  CASE title = "Yelp for Business" -> "yelp for business"
    [] title = "ERROR: The request could not be satisfied" -> "error: the request could not be satisfied"
    [] title = "  error: the request could not be satisfied " -> "error: the request could not be satisfied"
    [] title = "ERROR: The request could not be satisfied (403)" -> "error: the request could not be satisfied (403)"
    [] OTHER -> title

CloudfrontBlockTitle(title) == TrimLower(title) = "error: the request could not be satisfied"

\* !likelyBlockUrl && !cloudfrontBlockTitle && !cloudfrontBlockText is the way out.
Blocked(u, title, text) ==
  LikelyBlockUrl(u) \/ CloudfrontBlockTitle(title) \/ IsVisible(text)

\* The answers the page can give to the detection and resolution queries.
CaptchaDetections == {CaptchaChallengeVisible(q) : q \in CaptchaObs}
CaptchaResolutions == {CaptchaResolved(f) : f \in SeqsUpTo(DomFrames, 1)}
TwoFactorDetections == {HasOtp(otp, text) : otp \in Vis, text \in Vis}
TwoFactorResolutions == {TwoFactorResolved(d) : d \in DomTwoFactor}
BlockDetections == {Blocked(u, title, text) : u \in Urls, title \in TitleResults, text \in Vis}

\* ---- the detection functions applied to one observation of the page ----

NoProbe == [kind |-> "none", obs |-> <<>>, result |-> FALSE]

\* The captcha detection loop run on what count() and boundingBox() gave.
ProbeCaptcha ==
  /\ \E q \in CaptchaObs :
       probe' = [kind |-> "captcha", obs |-> q, result |-> CaptchaChallengeVisible(q)]
  /\ UNCHANGED <<qvars, cvars, reqs>>

\* The block condition evaluated on the url, the title and the CDN text query.
ProbeBlock ==
  /\ \E u \in Urls, title \in TitleResults, text \in Vis :
       probe' = [kind |-> "block", obs |-> [url |-> u, title |-> title, text |-> text],
                 result |-> Blocked(u, title, text)]
  /\ UNCHANGED <<qvars, cvars, reqs>>

\* hasOtp evaluated on the two visibility queries.
ProbeTwoFactor ==
  /\ \E otp \in Vis, text \in Vis :
       probe' = [kind |-> "twofactor", obs |-> [otp |-> otp, text |-> text],
                 result |-> HasOtp(otp, text)]
  /\ UNCHANGED <<qvars, cvars, reqs>>

\* What boundingBox() gives for an iframe of the document: null without a
\* layout box (display: none), else its rect.
BoxOf(frame) ==
  IF frame.display = "none" THEN [kind |-> "null", w |-> 0, h |-> 0]
  ELSE [kind |-> "box", w |-> frame.w, h |-> frame.h]

\* The captcha detection on a document: its selectors carry the i flag, so
\* they match every frame here, whatever the case of its src or title.
CaptchaDetectedOn(frames) ==
  CaptchaChallengeVisible([countOk |-> TRUE, boxes |-> [k \in 1..Len(frames) |-> BoxOf(frames[k])]])

\* The two-factor detection on a document: isVisible() of the code input,
\* and of the text locator, whose pattern matches each of the six phrases.
TwoFactorDetectedOn(d) ==
  HasOtp(IF d.otp = "visible" THEN "visible" ELSE "hidden",
         IF d.text # "none" THEN "visible" ELSE "hidden")

\* Detection and the polled resolution predicate applied to one document.
ProbeCaptchaDom ==
  /\ \E frames \in SeqsUpTo(DomFrames, 1) :
       probe' = [kind |-> "captcha-dom", obs |-> frames,
                 result |-> CaptchaDetectedOn(frames), resolved |-> CaptchaResolved(frames)]
  /\ UNCHANGED <<qvars, cvars, reqs>>

ProbeTwoFactorDom ==
  /\ \E d \in DomTwoFactor :
       probe' = [kind |-> "twofactor-dom", obs |-> d,
                 result |-> TwoFactorDetectedOn(d), resolved |-> TwoFactorResolved(d)]
  /\ UNCHANGED <<qvars, cvars, reqs>>

PNext ==
  \/ ProbeCaptcha \/ ProbeTwoFactor \/ ProbeBlock
  \/ ProbeCaptchaDom \/ ProbeTwoFactorDom

\* ---- goto: navigate, dismiss overlays, challenge pass ----

\* knownSelectors.length in #maybeDismissOverlays
NumOverlaySelectors == 2

\* Mutant: the pass starts with the block check.
EnterPass_BlockFirst(r, label) == At([r EXCEPT !.label = label], "blk.detect")

\* #handleChallengesOrBlocks(page, label) is entered: captcha detection first.
EnterPass(r, label) == At([r EXCEPT !.label = label], "cap.detect")

\* Mutant: the overlay loop starts over after every selector.
AfterOverlay_Loop(r) == At([r EXCEPT !.idx = 1], "ov.vis")

\* Mutant: goto returns after the overlay loop, without a challenge pass.
AfterOverlay_NoPass(r) ==
  IF r.idx < NumOverlaySelectors
  THEN At([r EXCEPT !.idx = @ + 1], "ov.vis")
  ELSE Return(r)

\* The overlay loop moves to the next selector, and after the last one goto
\* runs the challenge pass labelled "navigation".
AfterOverlay(r) ==
  IF r.idx < NumOverlaySelectors
  THEN At([r EXCEPT !.idx = @ + 1], "ov.vis")
  ELSE EnterPass(r, "navigation")

\* A challenge handler returns after its wait: its locals (dir, the time
\* waited) are gone.
Resolved(r, pc) == At([r EXCEPT !.elapsed = 0, !.dir = NoDir], pc)

\* captureDebugArtifacts returned { dir }.
Captured(r, label) == Logged([r EXCEPT !.dir = label], Event("snap", label))

\* await page.goto(url, { waitUntil: "domcontentloaded" }) returned or failed.
GotoNavigated(t) ==
  /\ thr[t].pc = "goto.nav"
  /\ \E ok \in BOOLEAN :
       Step(t, IF ok THEN At([thr[t] EXCEPT !.idx = 1], "ov.vis")
               ELSE Throw(thr[t], "NavigationFailed", NoDir))
  /\ UNCHANGED <<qvars, context, page, sessions, reqs, probe>>

\* button.first().isVisible().catch(() => false) for the current selector.
OverlayVisible(t) ==
  /\ thr[t].pc = "ov.vis"
  /\ \E v \in Vis :
       Step(t, IF IsVisible(v) THEN At(thr[t], "ov.click") ELSE AfterOverlay(thr[t]))
  /\ UNCHANGED <<qvars, context, page, sessions, reqs, probe>>

\* button.first().click().catch(() => undefined): returned or failed, the
\* loop goes on either way.
OverlayClicked(t) ==
  /\ thr[t].pc = "ov.click"
  /\ Step(t, AfterOverlay(thr[t]))
  /\ UNCHANGED <<qvars, context, page, sessions, reqs, probe>>

\* #maybeHandleCaptcha: the detection queries answered.
CaptchaDetect(t) ==
  /\ thr[t].pc = "cap.detect"
  /\ \E present \in CaptchaDetections :
       Step(t, IF present THEN At(thr[t], "cap.snap") ELSE At(thr[t], "tf.detect"))
  /\ UNCHANGED <<qvars, context, page, sessions, reqs, probe>>

\* The snapshot of the detected captcha returned (the wait begins) or failed.
CaptchaSnapshot(t) ==
  /\ thr[t].pc = "cap.snap"
  /\ \E ok \in BOOLEAN :
       Step(t, IF ok
               THEN At([Captured(thr[t], <<"captcha", thr[t].label>>) EXCEPT !.elapsed = 0], "cap.wait")
               ELSE Throw(thr[t], "CaptureFailed", NoDir))
  /\ UNCHANGED <<qvars, context, page, sessions, reqs, probe>>

\* waitForFunction polls the captcha resolution predicate inside the window.
CaptchaPoll(t) ==
  /\ thr[t].pc = "cap.wait"
  /\ thr[t].elapsed < TimeoutPolls
  /\ \E resolved \in CaptchaResolutions :
       Step(t, IF resolved THEN Resolved(thr[t], "tf.detect")
               ELSE [thr[t] EXCEPT !.elapsed = @ + 1])
  /\ UNCHANGED <<qvars, context, page, sessions, reqs, probe>>

\* The window elapsed: .catch(() => { throw new Error("CAPTCHA still present...") })
CaptchaTimeout(t) ==
  /\ thr[t].pc = "cap.wait"
  /\ thr[t].elapsed >= TimeoutPolls
  /\ Step(t, Throw(thr[t], "CaptchaTimeout", thr[t].dir))
  /\ UNCHANGED <<qvars, context, page, sessions, reqs, probe>>

\* waitForFunction rejected before the window elapsed (page or browser
\* closed, evaluation failed): the same .catch throws the same error.
CaptchaWaitFails(t) ==
  /\ thr[t].pc = "cap.wait"
  /\ thr[t].elapsed < TimeoutPolls
  /\ Step(t, Throw(thr[t], "CaptchaTimeout", thr[t].dir))
  /\ UNCHANGED <<qvars, context, page, sessions, reqs, probe>>

\* #maybeHandleTwoFactor: the detection queries answered.
TwoFactorDetect(t) ==
  /\ thr[t].pc = "tf.detect"
  /\ \E present \in TwoFactorDetections :
       Step(t, IF present THEN At(thr[t], "tf.snap") ELSE At(thr[t], "blk.detect"))
  /\ UNCHANGED <<qvars, context, page, sessions, reqs, probe>>

\* The snapshot of the detected two-factor step returned or failed.
TwoFactorSnapshot(t) ==
  /\ thr[t].pc = "tf.snap"
  /\ \E ok \in BOOLEAN :
       Step(t, IF ok
               THEN At([Captured(thr[t], <<"twofactor", thr[t].label>>) EXCEPT !.elapsed = 0], "tf.wait")
               ELSE Throw(thr[t], "CaptureFailed", NoDir))
  /\ UNCHANGED <<qvars, context, page, sessions, reqs, probe>>

\* waitForFunction polls the two-factor resolution predicate inside the window.
TwoFactorPoll(t) ==
  /\ thr[t].pc = "tf.wait"
  /\ thr[t].elapsed < TimeoutPolls
  /\ \E resolved \in TwoFactorResolutions :
       Step(t, IF resolved THEN Resolved(thr[t], "blk.detect")
               ELSE [thr[t] EXCEPT !.elapsed = @ + 1])
  /\ UNCHANGED <<qvars, context, page, sessions, reqs, probe>>

\* The window elapsed: "Two-factor / verification step still present after waiting."
TwoFactorTimeout(t) ==
  /\ thr[t].pc = "tf.wait"
  /\ thr[t].elapsed >= TimeoutPolls
  /\ Step(t, Throw(thr[t], "TwoFactorTimeout", thr[t].dir))
  /\ UNCHANGED <<qvars, context, page, sessions, reqs, probe>>

\* waitForFunction rejected before the window elapsed: the same .catch
\* throws the same error.
TwoFactorWaitFails(t) ==
  /\ thr[t].pc = "tf.wait"
  /\ thr[t].elapsed < TimeoutPolls
  /\ Step(t, Throw(thr[t], "TwoFactorTimeout", thr[t].dir))
  /\ UNCHANGED <<qvars, context, page, sessions, reqs, probe>>

\* #maybeThrowIfBlocked: url, title and CDN text looked at; no signal ends
\* the challenge pass.
BlockDetect(t) ==
  /\ thr[t].pc = "blk.detect"
  /\ \E blocked \in BlockDetections :
       Step(t, IF blocked THEN At(thr[t], "blk.snap") ELSE Return(thr[t]))
  /\ UNCHANGED <<qvars, context, page, sessions, reqs, probe>>

\* ---- the places that capture a snapshot and then throw ----

FailureSites == {"blk.snap", "ea.snapNoCreds", "ea.snapRedirect",
                 "login.snapMissing", "login.snapClick", "login.snapStill"}

\* The label handed to captureDebugArtifacts at each place.
SnapLabel(r) ==
  CASE r.pc = "blk.snap" -> <<"blocked", r.label>>
    [] r.pc = "ea.snapNoCreds" -> <<"biz-login-visible-but-missing-credentials", "">>
    [] r.pc = "ea.snapRedirect" -> <<"biz-auth-redirected-to-marketing", "">>
    [] r.pc = "login.snapMissing" -> <<"biz-login-missing-fields", "">>
    [] r.pc = "login.snapClick" -> <<"biz-login-submit-click-failed", "">>
    [] r.pc = "login.snapStill" -> <<"biz-login-still-visible", "">>

\* The error thrown at each place once the snapshot is there.
SiteError(r) ==
  CASE r.pc = "blk.snap" -> "BlockedDetected"
    [] r.pc = "ea.snapNoCreds" -> "LoginVisibleNoCredentials"
    [] r.pc = "ea.snapRedirect" -> "UnexpectedRedirect"
    [] r.pc = "login.snapMissing" -> "LoginFieldsMissing"
    [] r.pc = "login.snapClick" -> "LoginSubmitFailed"
    [] r.pc = "login.snapStill" -> "LoginDidNotSucceed"

\* const { dir } = await captureDebugArtifacts(...) returned: throw new
\* Error(`... Debug artifacts written to: ${dir}`)
SnapshotThenThrow(t) ==
  /\ thr[t].pc \in FailureSites
  /\ LET r == Captured(thr[t], SnapLabel(thr[t]))
     IN Step(t, Throw(r, SiteError(thr[t]), r.dir))
  /\ UNCHANGED <<qvars, context, page, sessions, reqs, probe>>

\* captureDebugArtifacts rejected (mkdir, title, content, screenshot or a
\* write failed): its error leaves the awaiting function in place of the
\* error about to be thrown.
SnapshotFails(t) ==
  /\ thr[t].pc \in FailureSites
  /\ Step(t, Throw(thr[t], "CaptureFailed", NoDir))
  /\ UNCHANGED <<qvars, context, page, sessions, reqs, probe>>

\* ---- ensureAuthenticated and #login ----

\* After await this.start(): const page = this.page(); await this.goto(login)
EaPage(t) ==
  /\ thr[t].pc = "ea.page"
  /\ Step(t, GotoEnter(Pushed(thr[t], "ea.loginvis"), "login"))
  /\ UNCHANGED <<qvars, context, page, sessions, reqs, probe>>

\* isLoginFormVisible answered: missing credentials capture a snapshot,
\* credentials enter #login (its "login-start" pass first), and no form goes
\* straight on to goto("https://biz.yelp.com/").
EaLoginVisible(t) ==
  /\ thr[t].pc = "ea.loginvis"
  /\ \E v \in Vis :
       LET r == Logged(thr[t], Event("loginQuery", <<v, "">>))
       IN Step(t, IF isEmailPasswordLoginVisible(v)
                  THEN IF ~r.creds
                       THEN At(r, "ea.snapNoCreds")
                       ELSE EnterPass(Pushed(Pushed(r, "ea.home"), "login.fields"), "login-start")
                  ELSE GotoEnter(Pushed(r, "ea.host"), "home"))
  /\ UNCHANGED <<qvars, context, page, sessions, reqs, probe>>

\* After await this.#login(...): await this.goto("https://biz.yelp.com/")
EaHome(t) ==
  /\ thr[t].pc = "ea.home"
  /\ Step(t, GotoEnter(Pushed(thr[t], "ea.host"), "home"))
  /\ UNCHANGED <<qvars, context, page, sessions, reqs, probe>>

\* const host = new URL(page.url()).host; if (host === "business.yelp.com") ...
EaHost(t) ==
  /\ thr[t].pc = "ea.host"
  /\ \E host \in Hosts :
       LET r == Logged(thr[t], Event("host", <<host, "">>))
       IN Step(t, IF host = "business.yelp.com" THEN At(r, "ea.snapRedirect") ELSE Return(r))
  /\ UNCHANGED <<qvars, context, page, sessions, reqs, probe>>

\* hasEmail / hasPassword answered: both visible starts the fill of the
\* email field, otherwise the missing-fields snapshot.
LoginFields(t) ==
  /\ thr[t].pc = "login.fields"
  /\ \E hasEmail \in Vis, hasPassword \in Vis :
       Step(t, IF ~IsVisible(hasEmail) \/ ~IsVisible(hasPassword)
               THEN At(thr[t], "login.snapMissing")
               ELSE At(Logged(thr[t], Event("fill", <<"email", "">>)), "login.fill1"))
  /\ UNCHANGED <<qvars, context, page, sessions, reqs, probe>>

\* await email.first().fill(username) returned or failed.
LoginFillEmail(t) ==
  /\ thr[t].pc = "login.fill1"
  /\ \E ok \in BOOLEAN :
       Step(t, IF ok THEN At(Logged(thr[t], Event("fill", <<"password", "">>)), "login.fill2")
               ELSE Throw(thr[t], "FillFailed", NoDir))
  /\ UNCHANGED <<qvars, context, page, sessions, reqs, probe>>

\* await password.first().fill(password) returned or failed.
LoginFillPassword(t) ==
  /\ thr[t].pc = "login.fill2"
  /\ \E ok \in BOOLEAN :
       Step(t, IF ok THEN At(thr[t], "login.submitvis") ELSE Throw(thr[t], "FillFailed", NoDir))
  /\ UNCHANGED <<qvars, context, page, sessions, reqs, probe>>

\* submitByRole.first().isVisible() answered: click the one or the other.
LoginSubmitVisible(t) ==
  /\ thr[t].pc = "login.submitvis"
  /\ \E v \in Vis :
       Step(t, At(Logged(thr[t], Event("click", <<IF IsVisible(v) THEN "role" ELSE "selector", "">>)),
                  "login.click"))
  /\ UNCHANGED <<qvars, context, page, sessions, reqs, probe>>

\* The click returned (wait for the URL to leave /login) or failed (catch:
\* snapshot, then LoginSubmitFailed).
LoginClick(t) ==
  /\ thr[t].pc = "login.click"
  /\ \E ok \in BOOLEAN :
       Step(t, IF ok THEN At(thr[t], "login.waiturl") ELSE At(thr[t], "login.snapClick"))
  /\ UNCHANGED <<qvars, context, page, sessions, reqs, probe>>

\* How page.waitForURL(u => !u.includes("/login"), { timeout: 45_000 }) ends:
\* the URL left the login surface, or the wait rejected after the timeout.
UrlWaits == {"left", "timeout"}

\* Mutant: a timed-out URL wait rejects #login.
AfterUrlWait_TimeoutFatal(r, w) ==
  IF w = "timeout" THEN Throw(r, "UrlWaitTimeout", NoDir)
  ELSE EnterPass(Pushed(r, "login.still"), "login-post-submit")

\* .catch(() => undefined) on the wait, then
\* await this.#handleChallengesOrBlocks(page, "login-post-submit")
AfterUrlWait(r, w) == EnterPass(Pushed(r, "login.still"), "login-post-submit")

\* page.waitForURL(...).catch(() => undefined): left /login or timed out,
\* the "login-post-submit" pass runs either way.
LoginWaitUrl(t) ==
  /\ thr[t].pc = "login.waiturl"
  /\ \E w \in UrlWaits :
       Step(t, AfterUrlWait(Logged(thr[t], Event("waitForURL", <<w, "">>)), w))
  /\ UNCHANGED <<qvars, context, page, sessions, reqs, probe>>

\* stillLoginVisible answered.
LoginStill(t) ==
  /\ thr[t].pc = "login.still"
  /\ \E v \in Vis :
       Step(t, IF isEmailPasswordLoginVisible(v) THEN At(thr[t], "login.snapStill") ELSE Return(thr[t]))
  /\ UNCHANGED <<qvars, context, page, sessions, reqs, probe>>

\* One step of the client operation caller t is in.
ClientStep(t) ==
  \/ StartMkdir(t) \/ StartLaunchFails(t) \/ StartLaunched(t) \/ StartNewPage(t)
  \/ StopClosed(t) \/ StopCloseFails(t)
  \/ GotoNavigated(t) \/ OverlayVisible(t) \/ OverlayClicked(t)
  \/ CaptchaDetect(t) \/ CaptchaSnapshot(t) \/ CaptchaPoll(t) \/ CaptchaTimeout(t)
  \/ CaptchaWaitFails(t)
  \/ TwoFactorDetect(t) \/ TwoFactorSnapshot(t) \/ TwoFactorPoll(t) \/ TwoFactorTimeout(t)
  \/ TwoFactorWaitFails(t)
  \/ BlockDetect(t) \/ SnapshotThenThrow(t) \/ SnapshotFails(t)
  \/ EaPage(t) \/ EaLoginVisible(t) \/ EaHome(t) \/ EaHost(t)
  \/ LoginFields(t) \/ LoginFillEmail(t) \/ LoginFillPassword(t)
  \/ LoginSubmitVisible(t) \/ LoginClick(t) \/ LoginWaitUrl(t) \/ LoginStill(t)

\* ---- a caller that uses the client directly, one call after the other ----

GotoTargets == {"login", "home", "other"}

Called(op, creds) == [IdleThread EXCEPT !.op = op, !.creds = creds]

\* The call itself: the operation runs up to its first await.
Entered(op, creds, url) ==
  CASE op = "start" -> StartEnter(Called(op, creds))
    [] op = "stop" -> StopEnter(Called(op, creds))
    [] op = "page" -> IF PageThrows THEN Throw(Called(op, creds), "NotStarted", NoDir)
                      ELSE Return(Called(op, creds))
    [] op = "goto" -> GotoEnter(Called(op, creds), url)
    [] op = "ensureAuthenticated" -> StartEnter(Pushed(Called(op, creds), "ea.page"))

CallStart ==
  /\ thr[0].pc \in {"idle", "done"}
  /\ Step(0, Entered("start", FALSE, "none"))
  /\ UNCHANGED <<qvars, context, page, sessions, reqs, probe>>

CallStop ==
  /\ thr[0].pc \in {"idle", "done"}
  /\ Step(0, Entered("stop", FALSE, "none"))
  /\ UNCHANGED <<qvars, context, page, sessions, reqs, probe>>

CallPage ==
  /\ thr[0].pc \in {"idle", "done"}
  /\ Step(0, Entered("page", FALSE, "none"))
  /\ UNCHANGED <<qvars, context, page, sessions, reqs, probe>>

CallGoto ==
  /\ thr[0].pc \in {"idle", "done"}
  /\ \E url \in GotoTargets : Step(0, Entered("goto", FALSE, url))
  /\ UNCHANGED <<qvars, context, page, sessions, reqs, probe>>

CallEnsureAuthenticated ==
  /\ thr[0].pc \in {"idle", "done"}
  /\ \E creds \in BOOLEAN : Step(0, Entered("ensureAuthenticated", creds, "none"))
  /\ UNCHANGED <<qvars, context, page, sessions, reqs, probe>>

CNext ==
  \/ CallStart \/ CallStop \/ CallPage \/ CallGoto \/ CallEnsureAuthenticated
  \/ ClientStep(0)

(***************************************************************************)
(* The HTTP control surface: one handler per request, every route sharing   *)
(* the one YelpBizClient (thread r runs the client code of request r) and   *)
(* the one SerialQueue.  Thread 0 is the process itself: its shutdown hook. *)
(***************************************************************************)
\* The frame of a task of the server (or of its shutdown hook).
Frame(op, creds) == [Called(op, creds) EXCEPT !.traced = FALSE]

NoRequest == [kind |-> "none", url |-> "none", hpc |-> "none", task |-> 0, resp |-> "none"]

Await(r) == [type |-> "cont", id |-> r]

\* The request that arrives next, while the server still listens.
NextReq == Cardinality({r \in 1..MaxReqs : reqs[r].kind # "none"}) + 1
Listening == NextReq <= MaxReqs /\ thr[0].pc = "idle"

\* await yelpQueue.enqueue(async () => {...}): the task is queued and the
\* handler waits for the returned promise.
EnqueueAndAwait(kind, url) ==
  /\ Listening
  /\ LET r == NextReq
         i == Len(tasks) + 1
         q == EnqueueOp(promises, microtasks, tail, CallFn(i))
         w == [onF |-> Await(r), onR |-> Await(r), target |-> 0]
     IN /\ promises' = [q.promises EXCEPT ![q.run].reactions = Append(@, w)]
        /\ microtasks' = q.microtasks
        /\ tail' = q.tail
        /\ tasks' = Append(tasks, [st |-> "queued", calls |-> 0, run |-> q.run, fnp |-> 0, req |-> r,
                                 parent |-> 0, waits |-> 0])
        /\ reqs' = [reqs EXCEPT ![r] = [kind |-> kind, url |-> url, hpc |-> "awaiting", task |-> i, resp |-> "none"]]
  /\ UNCHANGED <<startOrder, cvars, probe>>

\* POST /yelp/biz/ensure-auth
ArriveEnsureAuth == EnqueueAndAwait("ensure-auth", "none")

\* GET /yelp/biz/page
ArrivePage == EnqueueAndAwait("page", "none")

\* GET /yelp/biz/status
ArriveStatus == EnqueueAndAwait("status", "none")

AllowedPrefixes == {"https://biz.yelp.com/", "https://business.yelp.com/", "https://www.yelp.com/"}

\* The urls requests ask for: one on the biz portal, one on another site, and
\* the biz portal over plain http.
RequestUrls == {"https://biz.yelp.com/inbox", "https://evil.example/", "http://biz.yelp.com/"}

\* u.startsWith(p) on the urls and prefixes above.
StartsWith(u, p) == u = "https://biz.yelp.com/inbox" /\ p = "https://biz.yelp.com/"

\* Mutant: every url passes.
UrlAllowed_Any(url) == TRUE

\* .refine((u) => allowedPrefixes.some((p) => u.startsWith(p)))
UrlAllowed(url) == \E p \in AllowedPrefixes : StartsWith(url, p)

\* POST /yelp/biz/navigate with a body that passes Body.safeParse.
ArriveNavigate ==
  \E url \in RequestUrls : UrlAllowed(url) /\ EnqueueAndAwait("navigate", url)

\* POST /yelp/biz/navigate with a url outside the allow-list: 400, nothing queued.
ArriveNavigateRejected ==
  /\ Listening
  /\ \E url \in RequestUrls :
       /\ ~UrlAllowed(url)
       /\ reqs' = [reqs EXCEPT ![NextReq] =
                     [kind |-> "navigate", url |-> url, hpc |-> "responded", task |-> 0, resp |-> "400"]]
  /\ UNCHANGED <<qvars, cvars, probe>>

\* server.close(): the onClose hook calls yelpBiz.stop(), not through the queue.
ServerClose ==
  /\ thr[0].pc = "idle"
  /\ thr' = [thr EXCEPT ![0] = StopEnter(Frame("stop", FALSE))]
  /\ UNCHANGED <<qvars, context, page, sessions, reqs, probe>>

\* The body of each route's task, up to its first await.
TaskEntered(kind, creds, url) ==
  CASE kind = "ensure-auth" -> StartEnter(Pushed(Frame("ensureAuthenticated", creds), "ea.page"))
    [] kind = "page" -> IF PageThrows THEN Throw(Frame("page", FALSE), "NotStarted", NoDir)
                        ELSE Return(Frame("page", FALSE))
    [] kind = "status" -> IF PageThrows THEN Throw(Frame("status", FALSE), "NotStarted", NoDir)
                          ELSE At(Frame("status", FALSE), "status.query")
    [] kind = "navigate" -> StartEnter(Pushed([Frame("navigate", creds) EXCEPT !.url = url], "nav.goto"))

\* The engine runs the reaction job that calls a request's task.  creds:
\* whether the process has credentials (ensure-auth) or the body a
\* captureLabel (navigate).
StartRequestTask ==
  /\ microtasks # <<>>
  /\ Head(microtasks).h.type = "fn"
  /\ LET j == Head(microtasks)
         i == BoundTask(j)
         r == tasks[i].req
         f == Len(promises) + 1
         fwd == [onF |-> NoHandler, onR |-> NoHandler, target |-> j.target]
     IN /\ r # 0
        /\ startOrder' = Append(startOrder, i)
        /\ promises' = Append(promises, [PendingPromise EXCEPT !.reactions = <<fwd>>])
        /\ microtasks' = Tail(microtasks)
        /\ tasks' = [tasks EXCEPT ![i].st = "running", ![i].calls = @ + 1, ![i].fnp = f]
        /\ \E creds \in BOOLEAN :
             thr' = [thr EXCEPT ![r] = TaskEntered(reqs[r].kind, creds, reqs[r].url)]
  /\ UNCHANGED <<tail, context, page, sessions, reqs, probe>>

\* Mutant: the status task has no try/catch around its body.
TaskResult_NoCatch(kind, frame, i) ==
  IF frame.outcome.status = "ok"
  THEN [st |-> "fulfilled", val |-> [kind |-> "started", of |-> i]]
  ELSE [st |-> "rejected", val |-> TaskError(i)]

\* What a route's task returns or throws once its client code is done: the
\* page and status tasks catch everything, the others let errors through.
\* The status result says started: true even when page.title() failed
\* (title: null).
TaskResult(kind, frame, i) ==
  CASE kind = "page" -> [st |-> "fulfilled",
                         val |-> [kind |-> IF frame.outcome.status = "ok" THEN "true" ELSE "false", of |-> i]]
    [] kind = "status" -> [st |-> "fulfilled",
                           val |-> [kind |-> IF frame.outcome.status # "ok" THEN "not-started"
                                             ELSE IF frame.value = "title:null" THEN "started-title-null"
                                             ELSE "started",
                                    of |-> i]]
    [] OTHER -> IF frame.outcome.status = "ok"
                THEN [st |-> "fulfilled", val |-> TaskValue(i)]
                ELSE [st |-> "rejected", val |-> TaskError(i)]

\* The task's async function is done: its promise settles and its frame is gone.
TaskDone(r) ==
  /\ reqs[r].hpc = "awaiting"
  /\ reqs[r].task # 0
  /\ tasks[reqs[r].task].st = "running"
  /\ thr[r].pc = "done"
  /\ LET i == reqs[r].task
         res == TaskResult(reqs[r].kind, thr[r], i)
         s == SettleP(promises, microtasks, tasks[i].fnp, res.st, res.val)
     IN /\ promises' = s.promises
        /\ microtasks' = s.microtasks
        /\ tasks' = [tasks EXCEPT ![i].st = res.st]
  /\ thr' = [thr EXCEPT ![r] = IdleThread]
  /\ UNCHANGED <<tail, startOrder, context, page, sessions, reqs, probe>>

\* The handler resumes after its await.  /page goes on outside the queue:
\* if (!isStarted) return { started: false }; const page = yelpBiz.page();
\* page.url(); await page.title().  The other routes answer.
HandlerResumes ==
  /\ microtasks # <<>>
  /\ Head(microtasks).h.type = "cont"
  /\ LET j == Head(microtasks)
         r == j.h.id
         answer == CASE j.st = "rejected" -> "500"
                     [] j.val.kind = "false" -> "started:false"
                     [] j.val.kind = "not-started" -> "started:false"
                     [] j.val.kind = "started" -> "started:true"
                     [] j.val.kind = "started-title-null" -> "started:true,title:null"
                     [] j.val.kind = "true" -> IF PageThrows THEN "500" ELSE "none"
                     [] OTHER -> "ok"
     IN reqs' = [reqs EXCEPT ![r].hpc = IF answer = "none" THEN "title" ELSE "responded",
                             ![r].resp = answer]
  /\ microtasks' = Tail(microtasks)
  /\ UNCHANGED <<promises, tail, tasks, startOrder, cvars, probe>>

\* /page: await page.title() returned or failed.
PageTitleAnswered(r) ==
  /\ reqs[r].hpc = "title"
  /\ \E ok \in BOOLEAN :
       reqs' = [reqs EXCEPT ![r].hpc = "responded", ![r].resp = IF ok THEN "started:true" ELSE "500"]
  /\ UNCHANGED <<qvars, cvars, probe>>

\* /status: title, captcha, two-factor and login queries answered, each
\* guarded by its own catch: a failed page.title() gives title: null, a
\* failed flag query gives false, and the result is returned.
StatusQueried(t) ==
  /\ thr[t].pc = "status.query"
  /\ \E titleOk \in BOOLEAN :
       Step(t, Return([thr[t] EXCEPT !.value = IF titleOk THEN "title" ELSE "title:null"]))
  /\ UNCHANGED <<qvars, context, page, sessions, reqs, probe>>

\* /navigate after await yelpBiz.start(): await yelpBiz.goto(url)
NavGoto(t) ==
  /\ thr[t].pc = "nav.goto"
  /\ Step(t, GotoEnter(Pushed(thr[t], "nav.after"), thr[t].url))
  /\ UNCHANGED <<qvars, context, page, sessions, reqs, probe>>

\* /navigate after goto: const page = yelpBiz.page(); the capture when a
\* captureLabel was given, else page.url() and await page.title().
NavAfter(t) ==
  /\ thr[t].pc = "nav.after"
  /\ Step(t, IF PageThrows THEN Throw(thr[t], "NotStarted", NoDir)
             ELSE IF thr[t].creds THEN At(thr[t], "nav.capture") ELSE At(thr[t], "nav.title"))
  /\ UNCHANGED <<qvars, context, page, sessions, reqs, probe>>

\* /navigate: captureDebugArtifacts(page, { label: captureLabel }) returned or failed.
NavCapture(t) ==
  /\ thr[t].pc = "nav.capture"
  /\ \E ok \in BOOLEAN :
       Step(t, IF ok THEN At(Captured(thr[t], <<"captureLabel", "">>), "nav.title")
               ELSE Throw(thr[t], "CaptureFailed", NoDir))
  /\ UNCHANGED <<qvars, context, page, sessions, reqs, probe>>

\* /navigate: await page.title() returned or failed.
NavTitle(t) ==
  /\ thr[t].pc = "nav.title"
  /\ \E ok \in BOOLEAN :
       Step(t, IF ok THEN Return(thr[t]) ELSE Throw(thr[t], "TitleFailed", NoDir))
  /\ UNCHANGED <<qvars, context, page, sessions, reqs, probe>>

SNext ==
  \/ ArriveEnsureAuth \/ ArrivePage \/ ArriveStatus
  \/ ArriveNavigate \/ ArriveNavigateRejected \/ ServerClose
  \/ StartRequestTask \/ RunReaction \/ HandlerResumes
  \/ ClientStep(0)
  \/ \E r \in 1..MaxReqs :
       \/ TaskDone(r) \/ PageTitleAnswered(r)
       \/ ClientStep(r)
       \/ StatusQueried(r) \/ NavGoto(r) \/ NavAfter(r) \/ NavCapture(r) \/ NavTitle(r)

(***************************************************************************)
(* Specifications.                                                          *)
(***************************************************************************)
\* A fresh SerialQueue (#tail = Promise.resolve()), a fresh YelpBizClient
\* (no context, no page), no browser session, every caller idle, no request.
Init ==
  /\ promises = <<ResolvedPromise>>
  /\ tail = 1
  /\ microtasks = <<>>
  /\ tasks = <<>>
  /\ startOrder = <<>>
  /\ context = 0
  /\ page = 0
  /\ sessions = <<>>
  /\ thr = [t \in Threads |-> IdleThread]
  /\ reqs = [r \in 1..MaxReqs |-> NoRequest]
  /\ probe = NoProbe

\* The queue alone, with tasks that settle when and how they like.
SpecQueue == Init /\ [][QNext]_vars

\* The event loop always drains the microtask queue; nothing obliges a task
\* to settle or a caller to submit.
SpecQueueFair == SpecQueue /\ WF_vars(StartTask) /\ WF_vars(RunReaction)

\* The queue with tasks that enqueue on it while they run.
SpecNested == Init /\ [][NNext]_vars

\* The client used by one sequential caller.
SpecClient == Init /\ [][CNext]_vars

\* Every browser-driver call the client awaits returns or fails (each has a
\* timeout: 30 s by default, 45 s for navigation and the URL wait,
\* challengeTimeoutMs for the challenge waits); nothing obliges the caller to
\* make another call.
SpecClientFair == SpecClient /\ WF_vars(ClientStep(0))

\* The detection functions, on every observation within the bounds.
SpecProbe == Init /\ [][PNext]_vars

\* The server: overlapping requests, the queue, the client, and shutdown.
SpecServer == Init /\ [][SNext]_vars

(***************************************************************************)
(* Claims about the SerialQueue.                                            *)
(***************************************************************************)
Submitted(i) == i <= Len(tasks)
Started(i) == Submitted(i) /\ tasks[i].calls > 0
Executing(i) == Submitted(i) /\ tasks[i].st = "running"
Settled(i) == Submitted(i) /\ tasks[i].st \in {"fulfilled", "rejected"}
Handle(i) == promises[tasks[i].run]

\* C1: tasks start executing in the order enqueue was called: the k-th task
\* to start is the k-th task submitted, so none starts before an earlier one.
C1_StartOrderIsSubmissionOrder ==
  \A k \in 1..Len(startOrder) : startOrder[k] = k

\* All three tasks were submitted before the first settled, the first failed,
\* and all three have started.
C1_Witness ==
  /\ startOrder = <<1, 2, 3>>
  /\ tasks[1].st = "rejected"
  /\ tasks[3].st = "running"

\* C2: at most one task is executing (started and not settled), and a task
\* has started only if every task submitted before it has settled.
C2_AtMostOneExecuting ==
  /\ Cardinality({i \in 1..Len(tasks) : Executing(i)}) <= 1
  /\ \A i \in 1..Len(tasks) : Started(i) => \A j \in 1..(i - 1) : Settled(j)

\* The second task executes while the third waits behind it.
C2_Witness ==
  /\ Len(tasks) = 3
  /\ Settled(1) /\ Executing(2) /\ ~Started(3)

\* C3: a failing task never blocks the queue: once every task submitted
\* before T has settled (by success or failure), T is eventually invoked, and
\* no task is ever invoked more than once.
C3_FailureDoesNotBlock ==
  /\ [](\A i \in 1..Len(tasks) : tasks[i].calls <= 1)
  /\ \A i \in 1..MaxTasks :
       (Submitted(i) /\ \A j \in 1..(i - 1) : Settled(j)) ~> (Submitted(i) /\ tasks[i].calls = 1)

\* The first task failed and the second one was invoked, once.
C3_Witness ==
  /\ Len(tasks) >= 2
  /\ tasks[1].st = "rejected"
  /\ tasks[2].calls = 1

\* C4: the handle returned by enqueue settles with its own task's outcome and
\* no other: fulfilled only with the task's value after the task succeeded,
\* rejected only with the task's error after the task failed, and a settled
\* task's handle does settle that way.
C4_HandleIsOwnOutcome ==
  /\ [](\A i \in 1..Len(tasks) :
          /\ Handle(i).state = "fulfilled" => (tasks[i].st = "fulfilled" /\ Handle(i).value = TaskValue(i))
          /\ Handle(i).state = "rejected" => (tasks[i].st = "rejected" /\ Handle(i).value = TaskError(i)))
  /\ \A i \in 1..MaxTasks :
       /\ (Submitted(i) /\ tasks[i].st = "fulfilled") ~> (Submitted(i) /\ Handle(i).state = "fulfilled")
       /\ (Submitted(i) /\ tasks[i].st = "rejected") ~> (Submitted(i) /\ Handle(i).state = "rejected")

\* The first task failed and its handle carries its error; the second
\* succeeded and its handle carries its value, not the predecessor's failure.
C4_Witness ==
  /\ Len(tasks) >= 2
  /\ Handle(1).state = "rejected" /\ Handle(1).value = TaskError(1)
  /\ Handle(2).state = "fulfilled" /\ Handle(2).value = TaskValue(2)

\* C5: while a submitted task has not settled, no task submitted after it has
\* started and none of their handles has settled: nothing but the task's own
\* settlement releases the queue.
C5_UnsettledTaskStalls ==
  \A i \in 1..Len(tasks) : \A j \in 1..(i - 1) :
    ~Settled(j) => (tasks[i].calls = 0 /\ Handle(i).state = "pending")

\* The first task is executing, two more wait, and the engine has nothing
\* left to run: the queue stands still until the first task settles.
C5_Witness ==
  /\ Len(tasks) = 3
  /\ Executing(1)
  /\ microtasks = <<>>
  /\ ~Started(2) /\ ~Started(3)

(***************************************************************************)
(* Claims about the HTTP control surface.                                   *)
(***************************************************************************)
\* Request r's queued task is in flight: it uses the client from inside the queue.
TaskInFlight(r) == reqs[r].task # 0 /\ tasks[reqs[r].task].st = "running"

\* The /page handler of request r holds the page outside any queued task:
\* between yelpBiz.page() and the end of page.title().
PageOutside(r) == reqs[r].hpc = "title"

\* The onClose hook is inside yelpBiz.stop(), outside any queued task.
StopOutside == thr[0].pc \notin {"idle", "done"}

\* Those using the client or its page right now (0: the shutdown hook).
Accessors ==
  {r \in 1..MaxReqs : TaskInFlight(r) \/ PageOutside(r)} \cup (IF StopOutside THEN {0} ELSE {})

\* C6: with overlapping requests and shutdown, no two operations use the
\* client or its page at the same time, and neither the /page handler nor
\* the shutdown hook uses them outside a queued task while a task of the
\* queue is in flight.
C6_AccessOnlyInsideQueue ==
  /\ Cardinality(Accessors) <= 1
  /\ \A r, s \in 1..MaxReqs : (PageOutside(r) \/ StopOutside) => ~TaskInFlight(s)

(***************************************************************************)
(* Claims about the session lifecycle and ensureAuthenticated.              *)
(***************************************************************************)
OpenSessions == {c \in 1..Len(sessions) : sessions[c].closes = 0}
Finished(op) == thr[0].op = op /\ thr[0].pc = "done"

\* C7: start() on a session that is already active returns at once without
\* launching, creating a page or touching the handles; start() calls never
\* launch a second session while one is open, and once start() has returned
\* normally exactly one session is open, the one #context holds.
C7_StartIdempotent ==
  /\ [][(CallStart /\ context # 0) =>
          /\ thr'[0].pc = "done" /\ thr'[0].outcome = OkOutcome /\ thr'[0].log = <<>>
          /\ context' = context /\ page' = page /\ sessions' = sessions]_vars
  /\ [](/\ Cardinality(OpenSessions) <= 1
        /\ context # 0 => OpenSessions = {context}
        /\ (Finished("start") /\ thr[0].outcome = OkOutcome) => Cardinality(OpenSessions) = 1)

\* start() was called on an active session and returned without doing anything.
C7_Witness ==
  /\ Finished("start")
  /\ thr[0].outcome = OkOutcome
  /\ thr[0].log = <<>>
  /\ context # 0 /\ page # 0

\* C8: while there is no session (never started, or stopped and not started
\* again) there is no page either, and page() and goto(url) fail at once with
\* the not-started error: no navigation, no snapshot, nothing left running.
C8_NotStartedFails ==
  /\ [](context = 0 => page = 0)
  /\ [][(context = 0 /\ (CallPage \/ CallGoto)) =>
          /\ thr'[0].pc = "done"
          /\ thr'[0].outcome = ErrOutcome("NotStarted", NoDir)
          /\ thr'[0].log = <<>>]_vars

\* goto was refused on a session that had been started and stopped again.
C8_Witness ==
  /\ Finished("goto")
  /\ thr[0].outcome = ErrOutcome("NotStarted", NoDir)
  /\ context = 0
  /\ Len(sessions) >= 1

\* C9: stop() with no session to close returns normally and closes nothing;
\* no browser session is ever closed twice; when stop() has returned normally
\* both handles are unset, and the page handle stays unset until a start
\* (alone or inside ensureAuthenticated) sets it.
C9_StopSafe ==
  /\ [][(thr[0].pc = "stop.close" /\ thr[0].ctx = 0) =>
          /\ thr'[0].pc = "done" /\ thr'[0].outcome = OkOutcome /\ thr'[0].log = <<>>
          /\ sessions' = sessions]_vars
  /\ [](\A c \in 1..Len(sessions) : sessions[c].closes <= 1)
  /\ []((Finished("stop") /\ thr[0].outcome = OkOutcome) => (context = 0 /\ page = 0))
  /\ [][(page = 0 /\ page' # 0) => thr[0].op \in {"start", "ensureAuthenticated"}]_vars

\* stop() was called on a session an earlier stop() had already closed, and
\* returned normally without closing anything.
C9_Witness ==
  /\ Finished("stop")
  /\ thr[0].outcome = OkOutcome
  /\ thr[0].log = <<>>
  /\ Len(sessions) = 1 /\ sessions[1].closes = 1

MissingCredentialsLabel == <<"biz-login-visible-but-missing-credentials", "">>

\* C10: when ensureAuthenticated() runs without credentials and the login
\* form is visible after the navigation to the login surface, it fails with
\* the login-form-visible-but-no-credentials error, the snapshot is the last
\* thing done before the failure and its location is in the error, and the
\* call has filled no field, clicked no submit control and has not navigated
\* to the home surface.
C10_NoCredentialsFails ==
  [][thr[0].pc = "ea.snapNoCreds" =>
       /\ thr'[0].pc = "done"
       /\ thr'[0].outcome = ErrOutcome("LoginVisibleNoCredentials", MissingCredentialsLabel)
       /\ thr'[0].log[Len(thr'[0].log)] = Event("snap", MissingCredentialsLabel)
       /\ ~HasEvent(thr'[0].log, "fill")
       /\ ~HasEvent(thr'[0].log, "click")
       /\ \A k \in 1..Len(thr'[0].log) : thr'[0].log[k] # Event("nav", <<"home", "">>)]_vars

\* The host read after the last navigation of the call on thread 0.
LastHost == thr[0].log[Len(thr[0].log)].a[1]
HostChecked ==
  /\ thr[0].op = "ensureAuthenticated"
  /\ thr[0].log # <<>>
  /\ thr[0].log[Len(thr[0].log)].e = "host"

RedirectLabel == <<"biz-auth-redirected-to-marketing", "">>

\* C11: ensureAuthenticated() completes normally after the host check only
\* if the host read after the navigation to the home surface is biz.yelp.com;
\* any other host sends it to the redirect snapshot, and the failure raised
\* after that snapshot is UnexpectedRedirect with the snapshot location.
C11_HostVerified ==
  /\ HostChecked =>
       /\ (thr[0].pc = "done" /\ thr[0].outcome = OkOutcome) => LastHost = "biz.yelp.com"
       /\ LastHost # "biz.yelp.com" => thr[0].pc \in {"ea.snapRedirect", "done"}
  /\ (thr[0].pc = "done" /\ thr[0].log # <<>>
        /\ thr[0].log[Len(thr[0].log)] = Event("snap", RedirectLabel)) =>
       thr[0].outcome = ErrOutcome("UnexpectedRedirect", RedirectLabel)

\* How many events named e with first argument a the log holds.
CountEvents(log, e, a) == Cardinality({k \in 1..Len(log) : log[k].e = e /\ log[k].a[1] = a})
Clicks(log) == Cardinality({k \in 1..Len(log) : log[k].e = "click"})

StillVisibleLabel == <<"biz-login-still-visible", "">>

\* A new call by the sequential caller.
NewCall == CallStart \/ CallStop \/ CallPage \/ CallGoto \/ CallEnsureAuthenticated

\* The login form is still visible after the submit and the post-submit
\* pass: the login fails with LoginDidNotSucceed and the snapshot location.
C12_StillVisibleFails ==
  [][thr[0].pc = "login.snapStill" =>
       /\ thr'[0].pc = "done"
       /\ thr'[0].outcome = ErrOutcome("LoginDidNotSucceed", StillVisibleLabel)]_vars

\* Within one call each credential field is filled at most once and the
\* submit control is clicked at most once.
C12_NoRetry ==
  [](/\ CountEvents(thr[0].log, "fill", "email") <= 1
     /\ CountEvents(thr[0].log, "fill", "password") <= 1
     /\ Clicks(thr[0].log) <= 1)

\* Once a call has failed nothing more happens in it: the next thing is a new call.
C12_ErrorIsTerminal ==
  [][(thr[0].pc = "done" /\ thr[0].outcome.status = "err") => NewCall]_vars

\* C12: a login form still visible after the submit and the post-submit pass
\* makes the login fail with LoginDidNotSucceed carrying the snapshot
\* location; the submit is not retried (one click, one fill per field, per
\* call) and after an error the call navigates, fills and clicks no more.
C12_StillVisibleNoRetry ==
  C12_StillVisibleFails /\ C12_NoRetry /\ C12_ErrorIsTerminal

\* The step appends a snapshot of the given kind to the log of thread 0.
Snapshots(kind) ==
  /\ Len(thr'[0].log) = Len(thr[0].log) + 1
  /\ thr'[0].log[Len(thr'[0].log)].e = "snap"
  /\ thr'[0].log[Len(thr'[0].log)].a[1] = kind

\* The step appends nothing to the log of thread 0.
Silent == thr'[0].log = thr[0].log

\* Absent: the handler goes on to the next check with no snapshot, no wait.
C13_AbsentIsNoOp ==
  /\ [][(thr[0].pc = "cap.detect" /\ thr'[0].pc # "cap.snap") => (thr'[0].pc = "tf.detect" /\ Silent)]_vars
  /\ [][(thr[0].pc = "tf.detect" /\ thr'[0].pc # "tf.snap") => (thr'[0].pc = "blk.detect" /\ Silent)]_vars
  /\ [][(thr[0].pc = "blk.detect" /\ thr'[0].pc # "blk.snap") => Silent]_vars
  /\ [][Snapshots("captcha") => thr[0].pc = "cap.snap"]_vars
  /\ [][Snapshots("twofactor") => thr[0].pc = "tf.snap"]_vars
  /\ [][Snapshots("blocked") => thr[0].pc = "blk.snap"]_vars

\* Present: the snapshot comes first, then the wait or the failure.
C13_PresentIsSnapshotted ==
  /\ [][thr[0].pc = "cap.snap" => (Snapshots("captcha") /\ thr'[0].pc = "cap.wait")]_vars
  /\ [][thr[0].pc = "tf.snap" => (Snapshots("twofactor") /\ thr'[0].pc = "tf.wait")]_vars
  /\ [][thr[0].pc = "blk.snap" => (Snapshots("blocked") /\ thr'[0].pc = "done")]_vars
  /\ [][(thr'[0].pc = "cap.wait" /\ thr[0].pc # "cap.wait") => thr[0].pc = "cap.snap"]_vars
  /\ [][(thr'[0].pc = "tf.wait" /\ thr[0].pc # "tf.wait") => thr[0].pc = "tf.snap"]_vars

\* C13: in a challenge pass a snapshot of a kind is captured exactly when the
\* kind was detected: detected, the snapshot is captured before the wait
\* (captcha, two-factor) or the failure (block); not detected, the handler
\* returns with no snapshot and no wait.
C13_SnapshotIffDetected == C13_AbsentIsNoOp /\ C13_PresentIsSnapshotted

\* The captcha wait on thread 0: resolved inside the window returns to the
\* two-factor check; failure only at the end of the window, and then at once.
C14_CaptchaWait ==
  /\ [][(thr[0].pc = "cap.wait" /\ thr'[0].pc \notin {"cap.wait", "done"}) => thr'[0].pc = "tf.detect"]_vars
  /\ [][(thr[0].pc = "cap.wait" /\ thr'[0].pc = "done") =>
          /\ thr[0].elapsed = TimeoutPolls
          /\ thr'[0].outcome = ErrOutcome("CaptchaTimeout", thr[0].dir)
          /\ thr[0].dir # NoDir]_vars
  /\ [][(thr[0].pc = "cap.wait" /\ thr[0].elapsed = TimeoutPolls) => thr'[0].pc = "done"]_vars
  /\ [](thr[0].pc = "cap.wait" => thr[0].elapsed <= TimeoutPolls)

\* The same for the two-factor wait, which returns to the block check.
C14_TwoFactorWait ==
  /\ [][(thr[0].pc = "tf.wait" /\ thr'[0].pc \notin {"tf.wait", "done"}) => thr'[0].pc = "blk.detect"]_vars
  /\ [][(thr[0].pc = "tf.wait" /\ thr'[0].pc = "done") =>
          /\ thr[0].elapsed = TimeoutPolls
          /\ thr'[0].outcome = ErrOutcome("TwoFactorTimeout", thr[0].dir)
          /\ thr[0].dir # NoDir]_vars
  /\ [][(thr[0].pc = "tf.wait" /\ thr[0].elapsed = TimeoutPolls) => thr'[0].pc = "done"]_vars
  /\ [](thr[0].pc = "tf.wait" => thr[0].elapsed <= TimeoutPolls)

\* C14: while a detected captcha or two-factor challenge is waited for, a
\* resolution predicate that becomes true inside the window makes the handler
\* return normally, and the handler fails only when the whole window has
\* elapsed, then at once, with the timeout error and the snapshot location.
C14_TimeoutExactlyAtWindow == C14_CaptchaWait /\ C14_TwoFactorWait

\* Where the block check returns to when it finds nothing: the caller of the
\* challenge pass, or the end of the operation.
BlockCheckReturn ==
  IF thr[0].stack = <<>> THEN "done" ELSE Head(thr[0].stack)

\* C15: a block signal (url, title or CDN text) is fatal at once: the block
\* check captures the snapshot and fails with BlockedDetected carrying its
\* location, with no wait and no poll; with no signal it returns normally
\* with no snapshot.
C15_BlockIsFatal ==
  /\ [][thr[0].pc = "blk.detect" =>
          /\ Silent
          /\ \/ thr'[0].pc = "blk.snap"
             \/ thr'[0].pc = BlockCheckReturn /\ thr'[0].outcome.status # "err"]_vars
  /\ [][thr[0].pc = "blk.snap" =>
          /\ Snapshots("blocked")
          /\ thr'[0].pc = "done"
          /\ thr'[0].outcome = ErrOutcome("BlockedDetected", <<"blocked", thr[0].label>>)]_vars

(***************************************************************************)
(* Claims about the detection functions.                                    *)
(***************************************************************************)
\* C16: the captcha detection reports an active challenge exactly when some
\* matching iframe has a bounding box at least 100 wide and at least 100
\* high: 80x80, 150x80 and an iframe without a box never count, 100x100 and
\* 150x150 do.
C16_LargeBoxIffChallenge ==
  probe.kind = "captcha" =>
    (probe.result <=>
       \E k \in 1..Len(probe.obs.boxes) :
         /\ probe.obs.boxes[k].kind = "box"
         /\ probe.obs.boxes[k].w >= 100
         /\ probe.obs.boxes[k].h >= 100)

\* The detection ran on an iframe of 150x80 followed by one of 100x100 and
\* reported a challenge.
C16_Witness ==
  /\ probe.kind = "captcha"
  /\ probe.obs.countOk
  /\ probe.obs.boxes = <<[kind |-> "box", w |-> 150, h |-> 80], [kind |-> "box", w |-> 100, h |-> 100]>>
  /\ probe.result

(***************************************************************************)
(* Claims about the routes of the control surface.                          *)
(***************************************************************************)
StatusReqs == {r \in 1..MaxReqs : reqs[r].kind = "status"}
Answered(r) == reqs[r].hpc = "responded"

\* The status task that is done settles in this step.
StatusSettles(r) ==
  /\ reqs[r].kind = "status"
  /\ tasks[reqs[r].task].st = "running"
  /\ tasks'[reqs[r].task].st # "running"

Disallowed == {"https://evil.example/", "http://biz.yelp.com/"}

\* C18: a navigate request for a url outside the allow-list is answered 400
\* on arrival: no task is queued for it, the queue, the session, its page and
\* every running call are left as they were, and no call ever navigates to
\* such a url.
C18_DisallowedRejected ==
  /\ [](\A r \in 1..MaxReqs :
          (reqs[r].kind = "navigate" /\ reqs[r].url \in Disallowed) =>
            (reqs[r].task = 0 /\ reqs[r].hpc = "responded" /\ reqs[r].resp = "400"))
  /\ [][\A r \in 1..MaxReqs :
          (reqs[r].kind = "none" /\ reqs'[r].kind = "navigate" /\ reqs'[r].url \in Disallowed) =>
            UNCHANGED <<qvars, cvars>>]_vars
  /\ [](\A t \in Threads : thr[t].url \notin Disallowed)

\* A navigate request for the biz portal over plain http was refused while
\* the task of an earlier, allowed navigate request was running.
C18_Witness ==
  /\ reqs[1].kind = "navigate" /\ reqs[1].url = "https://biz.yelp.com/inbox"
  /\ tasks[reqs[1].task].st = "running"
  /\ thr[1].pc = "goto.nav"
  /\ reqs[2].kind = "navigate" /\ reqs[2].url = "http://biz.yelp.com/"
  /\ reqs[2].resp = "400"

(***************************************************************************)
(* Claims about failures and their snapshots.                               *)
(***************************************************************************)
\* The errors that report a problem with the state of the page.
PageStateErrors ==
  {"LoginVisibleNoCredentials", "LoginFieldsMissing", "LoginSubmitFailed",
   "CaptchaTimeout", "TwoFactorTimeout", "BlockedDetected",
   "LoginDidNotSucceed", "UnexpectedRedirect"}

\* C19: a call that fails on a page-state problem fails with the error of
\* that problem and the location of a snapshot captured during the call:
\* from every place that is about to report such a problem the call ends
\* with a page-state error carrying a snapshot location (a failed capture
\* does not take its place), and every page-state error a call has ended
\* with names a snapshot that is in the call's own history.
C19_FailuresCarrySnapshot ==
  /\ [][thr[0].pc \in FailureSites =>
          /\ thr'[0].pc = "done"
          /\ thr'[0].outcome.err \in PageStateErrors
          /\ thr'[0].outcome.dir # NoDir]_vars
  /\ []((thr[0].pc = "done" /\ thr[0].outcome.err \in PageStateErrors) =>
          /\ thr[0].outcome.dir # NoDir
          /\ \E k \in 1..Len(thr[0].log) : thr[0].log[k] = Event("snap", thr[0].outcome.dir))

\* The login query of the call on thread 0 was answered, and not with a
\* visible form (hidden, or the query failed).
NoFormSeen ==
  /\ thr[0].op = "ensureAuthenticated"
  /\ \E k \in 1..Len(thr[0].log) :
       thr[0].log[k].e = "loginQuery" /\ thr[0].log[k].a[1] # "visible"

\* C20: when no login form is visible after the navigation to the login
\* surface, with or without credentials, ensureAuthenticated() does not log
\* in (no login challenge pass, no fill, no click, no missing-credentials
\* failure) and goes straight on to the home surface; if it completes, it
\* has navigated there and read the host.
C20_NoFormNoLogin ==
  /\ [](NoFormSeen =>
          /\ ~HasEvent(thr[0].log, "fill")
          /\ ~HasEvent(thr[0].log, "click")
          /\ thr[0].label \notin {"login-start", "login-post-submit"}
          /\ thr[0].pc \notin {"ea.snapNoCreds", "ea.home", "login.fields", "login.fill1", "login.fill2",
                               "login.submitvis", "login.click", "login.waiturl", "login.still",
                               "login.snapMissing", "login.snapClick", "login.snapStill"}
          /\ thr[0].outcome.err \notin {"LoginVisibleNoCredentials", "LoginFieldsMissing",
                                        "LoginSubmitFailed", "LoginDidNotSucceed"})
  /\ [][(~NoFormSeen /\ NoFormSeen') =>
          /\ thr'[0].pc = "goto.nav" /\ thr'[0].url = "home"
          /\ thr'[0].log[Len(thr'[0].log)] = Event("nav", <<"home", "">>)]_vars
  /\ []((NoFormSeen /\ thr[0].pc = "done" /\ thr[0].outcome = OkOutcome) =>
          thr[0].log[Len(thr[0].log)].e = "host")

\* Credentials were supplied, no login form was visible, and the call
\* completed after reading the host, without a fill or a click.
C20_Witness ==
  /\ NoFormSeen
  /\ thr[0].creds
  /\ thr[0].pc = "done" /\ thr[0].outcome = OkOutcome
  /\ thr[0].log[Len(thr[0].log)] = Event("host", <<"biz.yelp.com", "">>)

\* The awaits of the three handlers of a challenge pass.
CaptchaPcs == {"cap.detect", "cap.snap", "cap.wait"}
TwoFactorPcs == {"tf.detect", "tf.snap", "tf.wait"}
BlockPcs == {"blk.detect", "blk.snap"}

\* The awaits after which a challenge pass is entered: the overlay loop of
\* goto, the login query of ensureAuthenticated, the URL wait of #login.
PassCallers == {"ov.vis", "ov.click", "ea.loginvis", "login.waiturl"}

\* The call on thread 0 ended with an error.
Failed(r) == r.pc = "done" /\ r.outcome.status = "err"

\* C21: within one challenge pass the handlers run in the order Captcha,
\* TwoFactor, Block.  Captcha detection is what a pass begins with; TwoFactor
\* detection begins only out of the Captcha handler returning (nothing
\* detected, or the wait resolved), Block detection only out of the TwoFactor
\* handler returning, in the same pass; and a handler that fails ends the
\* call, so no later handler runs.
C21_HandlersInOrder ==
  /\ [][(thr'[0].pc = "cap.detect") => thr[0].pc \in PassCallers]_vars
  /\ [][(thr'[0].pc = "tf.detect") =>
          /\ thr[0].pc \in {"cap.detect", "cap.wait"}
          /\ thr'[0].label = thr[0].label /\ thr'[0].stack = thr[0].stack]_vars
  /\ [][(thr'[0].pc = "blk.detect") =>
          /\ thr[0].pc \in {"tf.detect", "tf.wait"}
          /\ thr'[0].label = thr[0].label /\ thr'[0].stack = thr[0].stack]_vars
  /\ [][(thr[0].pc \in CaptchaPcs /\ thr'[0].pc \notin CaptchaPcs) =>
          thr'[0].pc = "tf.detect" \/ Failed(thr'[0])]_vars
  /\ [][(thr[0].pc \in TwoFactorPcs /\ thr'[0].pc \notin TwoFactorPcs) =>
          thr'[0].pc = "blk.detect" \/ Failed(thr'[0])]_vars
  /\ [][(thr[0].pc \in BlockPcs /\ thr'[0].pc \notin BlockPcs) =>
          \/ Failed(thr'[0])
          \/ /\ thr[0].pc = "blk.detect"
             /\ thr'[0] = Return(thr[0])]_vars

\* A pass in which a captcha and a two-factor step were both detected and
\* both resolved has arrived at the block check.
C21_Witness ==
  /\ thr[0].pc = "blk.detect"
  /\ \E k \in 1..Len(thr[0].log) :
       /\ k + 1 = Len(thr[0].log)
       /\ thr[0].log[k] = Event("snap", <<"captcha", thr[0].label>>)
       /\ thr[0].log[k + 1] = Event("snap", <<"twofactor", thr[0].label>>)

OverlayPcs == {"ov.vis", "ov.click"}
PassPcs == CaptchaPcs \cup TwoFactorPcs \cup BlockPcs

\* Thread 0 is inside a goto(url) called by the caller itself.
InGoto == thr[0].op = "goto" /\ thr[0].pc # "done"

\* C22: goto(url) navigates, then dismisses overlays, then runs the
\* "navigation" challenge pass.  The overlay loop starts only out of the
\* navigation having returned, it leaves only into the pass (whatever its
\* queries and clicks did, it never ends the call), goto returns normally
\* only out of the block check of that pass, and an elapsed challenge wait
\* or a detected block ends goto with an error.
C22_GotoOrder ==
  /\ [][(InGoto /\ thr'[0].pc \in OverlayPcs) => thr[0].pc \in OverlayPcs \cup {"goto.nav"}]_vars
  /\ [][(InGoto /\ thr[0].pc \in OverlayPcs) =>
          \/ thr'[0].pc \in OverlayPcs
          \/ thr'[0].pc = "cap.detect" /\ thr'[0].label = "navigation"]_vars
  /\ [][(InGoto /\ thr'[0].pc \in PassPcs) => thr[0].pc \in OverlayPcs \cup PassPcs]_vars
  /\ [][(InGoto /\ thr'[0].pc = "done" /\ thr'[0].outcome = OkOutcome) =>
          thr[0].pc = "blk.detect" /\ thr[0].label = "navigation"]_vars
  /\ [][(InGoto /\ thr[0].pc \in {"cap.wait", "tf.wait"} /\ thr[0].elapsed >= TimeoutPolls) =>
          Failed(thr'[0])]_vars
  /\ [][(InGoto /\ thr[0].pc = "blk.snap") => Failed(thr'[0])]_vars

\* A goto whose navigation pass found the page blocked has failed.
C22_Witness ==
  /\ thr[0].op = "goto"
  /\ thr[0].outcome = ErrOutcome("BlockedDetected", <<"blocked", "navigation">>)
  /\ thr[0].log[Len(thr[0].log)] = Event("snap", <<"blocked", "navigation">>)

\* The URL wait of the login in progress on thread 0 timed out.
UrlWaitTimedOut(r) ==
  /\ r.log # <<>>
  /\ \E k \in 1..Len(r.log) :
       /\ r.log[k] = Event("waitForURL", <<"timeout", "">>)
       /\ \A j \in (k + 1)..Len(r.log) : r.log[j].e = "snap"

\* C23: a timed-out URL wait is not a failure of the login.  Whatever the
\* wait gave, #login goes on to the "login-post-submit" pass; when that pass
\* returns it asks whether the login form is still visible; and when it is
\* not, #login returns normally to ensureAuthenticated, also after a
\* timed-out wait.
C23_UrlWaitTimeoutNotFatal ==
  /\ [][(thr[0].pc = "login.waiturl" /\ thr'[0].pc # "login.waiturl") =>
          /\ thr'[0].pc = "cap.detect" /\ thr'[0].label = "login-post-submit"
          /\ thr'[0].stack = <<"login.still">> \o thr[0].stack]_vars
  /\ [][(thr[0].pc = "blk.detect" /\ thr[0].label = "login-post-submit"
           /\ thr'[0].pc \notin BlockPcs) =>
          thr'[0].pc = "login.still" /\ (UrlWaitTimedOut(thr[0]) => UrlWaitTimedOut(thr'[0]))]_vars
  /\ [][(thr'[0].pc = "login.still") =>
          thr[0].pc \in {"login.still", "blk.detect"} /\ thr[0].label = "login-post-submit"]_vars
  /\ [][(thr[0].pc = "login.still" /\ thr'[0].pc \notin {"login.still", "login.snapStill"}) =>
          thr'[0].pc = "ea.home"]_vars

\* After a timed-out URL wait the form was found gone and #login has
\* returned to ensureAuthenticated.
C23_Witness ==
  /\ thr[0].pc = "ea.home"
  /\ UrlWaitTimedOut(thr[0])

\* The awaits of #login at which a field is being filled or submit clicked.
FillClickPcs == {"login.fill1", "login.fill2", "login.submitvis", "login.click"}

\* The fill and click events of a history.
Inputs(log) == {k \in 1..Len(log) : log[k].e \in {"fill", "click"}}

\* C24, first part: the field queries of #login are made only out of the
\* "login-start" pass returning normally, the first fill only out of those
\* queries, and no fill or click is added to the history anywhere else than
\* on the way from the queries to the click.
C24_FillGated ==
  /\ [][(thr'[0].pc = "login.fields") =>
          thr[0].pc \in {"login.fields", "blk.detect"} /\ thr[0].label = "login-start"]_vars
  /\ [][(thr'[0].pc \in FillClickPcs) => thr[0].pc \in FillClickPcs \cup {"login.fields"}]_vars
  /\ [][(thr'[0].pc # "idle" /\ thr[0].pc \notin {"idle", "done"}
           /\ Inputs(thr'[0].log) # Inputs(thr[0].log)) =>
          thr[0].pc \in {"login.fields", "login.fill1", "login.submitvis"}]_vars

\* C24, second part: with a field not visible, #login captures the
\* "biz-login-missing-fields" snapshot and fails with LoginFieldsMissing
\* carrying its location, with no fill and no click.
C24_MissingFieldsFail ==
  [][(thr[0].pc = "login.snapMissing") =>
       /\ thr'[0].log = Append(thr[0].log, Event("snap", <<"biz-login-missing-fields", "">>))
       /\ Inputs(thr'[0].log) = {}
       /\ thr'[0].pc = "done"
       /\ thr'[0].outcome = ErrOutcome("LoginFieldsMissing", <<"biz-login-missing-fields", "">>)]_vars

\* C24: fields are filled and submit is clicked only after the "login-start"
\* pass returned normally and both inputs were seen visible; otherwise the
\* login captures a snapshot and fails with LoginFieldsMissing, having
\* filled and clicked nothing.
C24_FillOnlyWhenFieldsVisible == C24_FillGated /\ C24_MissingFieldsFail

\* Every captcha query of the observation failed: count() itself, or the
\* boundingBox() of every iframe.
AllCaptchaQueriesFailed(q) ==
  ~q.countOk \/ \A k \in 1..Len(q.boxes) : q.boxes[k].kind = "failed"

\* Some iframe of the observation has a box of at least 100 by 100.
HasLargeBox(q) ==
  q.countOk /\ \E k \in 1..Len(q.boxes) :
    q.boxes[k].kind = "box" /\ q.boxes[k].w >= MinCaptchaSize /\ q.boxes[k].h >= MinCaptchaSize

\* C25: a failed detection query is never taken for a challenge and never
\* hides one.  With every query failed (and the url carrying no block
\* fragment) each detection answers "nothing there", which is the pass
\* returning normally with no snapshot; and a failed query next to a
\* genuine signal (a large iframe after a failed box, the 2FA text after a
\* failed code-input query, the CDN text after a failed title) still
\* detects it, whatever the observation before it was.
C25_FailedQueryIsNotAChallenge ==
  /\ (probe.kind = "captcha" /\ AllCaptchaQueriesFailed(probe.obs)) => ~probe.result
  /\ (probe.kind = "captcha" /\ HasLargeBox(probe.obs)) => probe.result
  /\ probe.kind = "twofactor" =>
       probe.result = ("visible" \in {probe.obs.otp, probe.obs.text})
  /\ (probe.kind = "block" /\ probe.obs.title = "" /\ probe.obs.text = "failed"
        /\ probe.obs.url.path \in {"/", "/login"}) => ~probe.result
  /\ (probe.kind = "block" /\ probe.obs.text = "visible") => probe.result

\* The box query of the first iframe failed and the detection still found
\* the large second one.
C25_Witness ==
  /\ probe.kind = "captcha"
  /\ Len(probe.obs.boxes) = 2
  /\ probe.obs.boxes[1].kind = "failed"
  /\ HasLargeBox(probe.obs)
  /\ probe.result

\* C26: on every document the resolution predicate polled by the wait is
\* true exactly when the detection is false, for the captcha and for the
\* two-factor step.
C26_ResolutionIsNotDetection ==
  probe.kind \in {"captcha-dom", "twofactor-dom"} => (probe.resolved <=> ~probe.result)

\* The "snap" events of a history.
SnapEvents(log) == {k \in 1..Len(log) : log[k].e = "snap"}

\* C27: when the wait on a detected captcha or two-factor step runs out,
\* a snapshot is captured on the timeout too: the call ends with one
\* snapshot more than the wait began with.
C27_SnapshotOnTimeout ==
  [][(thr[0].pc \in {"cap.wait", "tf.wait"} /\ thr[0].elapsed >= TimeoutPolls) =>
       /\ Failed(thr'[0])
       /\ Cardinality(SnapEvents(thr'[0].log)) = Cardinality(SnapEvents(thr[0].log)) + 1]_vars

\* Thread 0 is inside a goto or an ensureAuthenticated.
Suspended ==
  thr[0].op \in {"goto", "ensureAuthenticated"} /\ thr[0].pc \notin {"idle", "done"}

\* C28: a goto or ensureAuthenticated that has begun eventually settles,
\* with success or with an error, when every driver call it awaits returns
\* or fails: the overlay loop, the challenge polls and the URL wait are all
\* bounded.
C28_OperationsSettle == Suspended ~> (thr[0].pc = "done")

\* An ensureAuthenticated that waited on a challenge and on the URL after
\* the submit has settled.
C28_Witness ==
  /\ thr[0].op = "ensureAuthenticated"
  /\ thr[0].pc = "done"
  /\ HasEvent(thr[0].log, "waitForURL")
  /\ \E k \in 1..Len(thr[0].log) : thr[0].log[k] = Event("snap", <<"captcha", "login-post-submit">>)

\* C29: between the calls of a caller that only starts and stops the
\* session, whatever failed in them, #context is set exactly when #page is;
\* and after a start() that returned normally page() does not throw.
C29_HandlesAgree ==
  thr[0].pc \in {"idle", "done"} =>
    /\ (context # 0) <=> (page # 0)
    /\ (thr[0].op = "start" /\ thr[0].outcome = OkOutcome) => ~PageThrows

\* Task i was submitted by task p while p was running.
NestedIn(i, p) == Submitted(i) /\ tasks[i].parent = p

\* C30: a task submitted by a running task to its own queue is ordered
\* after that task: it has not started while the enclosing task has not
\* settled.  So an enclosing task that awaits the nested task's handle stays
\* running for ever, the nested task is never started, and no task
\* submitted after the enclosing one starts or has its handle settled.
C30_NestedEnqueueDeadlocks ==
  /\ \A i \in 1..Len(tasks) : \A p \in 1..Len(tasks) :
       (NestedIn(i, p) /\ Started(i)) => (Settled(p) /\ Handle(p).state # "pending")
  /\ \A p \in 1..Len(tasks) :
       tasks[p].waits # 0 =>
         /\ NestedIn(tasks[p].waits, p)
         /\ Executing(p) /\ Handle(p).state = "pending"
         /\ \A j \in (p + 1)..Len(tasks) : ~Started(j) /\ Handle(j).state = "pending"

\* The first task awaits the task it submitted itself, a third waits behind
\* both, and the engine has nothing left to run.
C30_Witness ==
  /\ Len(tasks) = 3
  /\ tasks[1].waits = 2
  /\ tasks[3].parent = 0
  /\ microtasks = <<>>
  /\ Executing(1) /\ ~Started(2) /\ ~Started(3)

====
